---- MODULE Spec2Model ----
(***************************************************************************)
(* A model of the CAMS PDF portfolio dashboard: the three Streamlit        *)
(* scripts camspdf_gui.py ("gui"), gui2.py ("gui2") and the earlier copy   *)
(* of camspdf_gui.py ("copy").                                             *)
(*                                                                         *)
(* Three specifications share the module:                                  *)
(*   SpecBatch  process_pdf_files, one loop iteration per step, in each of *)
(*              the three scripts;                                         *)
(*   SpecVal    prepare_investment_data as a function of a table and of    *)
(*              the NAV source, called twice in succession;                *)
(*   Spec       the script runs of MutualFundAnalyzer.main over one        *)
(*              browser session (uploads, checkbox toggles, reruns).       *)
(*                                                                         *)
(* Python strings are sequences of one-character strings, so that lower(), *)
(* endswith(), split(), strip(), substring tests and sorted() are computed *)
(* and not looked up.  Numbers read from a statement are text until        *)
(* pd.to_numeric has read them.                                            *)
(***************************************************************************)
EXTENDS Integers, Sequences, FiniteSets, TLC

VARIABLES
    \* which script's functions a SpecBatch / SpecVal behaviour exercises
    variant,
    \* ---- process_pdf_files (SpecBatch) ----
    uploaded_files,     \* the batch: sequence of [name, size]
    passwords,          \* one password per uploaded file
    adapter,            \* what ProcessPDF does for each file of the batch
    idx,                \* the loop's position: next file to attempt
    batch,              \* the loop's locals and its effects so far
    returned,           \* process_pdf_files' return value, once it returned
    \* ---- prepare_investment_data (SpecVal) ----
    val_df,             \* the caller's table object
    val_before,         \* that table before the first call
    val_out,            \* the results of the calls made so far
    \* ---- the NAV source, _LatestNav ----
    nav_source,
    \* ---- st.session_state and the widgets (Spec) ----
    session_combined_df,
    session_investment_summary,
    selected_pans,
    selected_funds,
    widgets,            \* the checkboxes' state, by key
    widget_identity,    \* what identifies a widget across runs in this build
    run_log,            \* what the script run in progress, or the last one, did
    uploads,            \* how often "Analyze Portfolio" was pressed with files
    \* ---- one run of MutualFundAnalyzer.main (Spec) ----
    pc,                 \* the line of main the run is at, "idle" between runs
    rendered,           \* the widget keys created so far in the run
    exception,          \* the exception that ended the run, "" for none
    filtered_summary,   \* main's local of that name
    main_combined_df,   \* main's local combined_df (line 350)
    \* ---- history ----
    toggled             \* SpecToggle: the checkbox clicks since the last other
                        \* interaction (the last two), each with the selections
                        \* it found

batchVars == <<uploaded_files, passwords, adapter, idx, batch, returned>>
valVars == <<val_df, val_before, val_out>>
appVars == <<session_combined_df, session_investment_summary, selected_pans,
             selected_funds, widgets, widget_identity, run_log, uploads,
             pc, rendered, exception, filtered_summary, main_combined_df, toggled>>
vars == <<variant, batchVars, valVars, nav_source, appVars>>

----------------------------------------------------------------------------
(* Bounds *)

MaxFiles == 2
MaxRows == 3
MaxUploads == 2

----------------------------------------------------------------------------
(* Python str *)

\* ord() of the characters the model's strings are made of
CharCode ==
    [c \in {" ", "-", ".", "0", "1", "2", "5", "A", "B", "C", "D", "E", "G", "P", "F",
            "X", "Z", "a", "b", "c", "d", "e", "f", "g", "p", "t", "w", "x", "z"} |->
        CASE c = " " -> 32 [] c = "-" -> 45 [] c = "." -> 46
          [] c = "0" -> 48 [] c = "1" -> 49 [] c = "2" -> 50 [] c = "5" -> 53
          [] c = "A" -> 65 [] c = "B" -> 66 [] c = "C" -> 67 [] c = "D" -> 68
          [] c = "E" -> 69 [] c = "F" -> 70 [] c = "G" -> 71 [] c = "P" -> 80
          [] c = "X" -> 88 [] c = "Z" -> 90
          [] c = "a" -> 97 [] c = "b" -> 98 [] c = "c" -> 99 [] c = "d" -> 100
          [] c = "e" -> 101 [] c = "f" -> 102 [] c = "g" -> 103 [] c = "p" -> 112
          [] c = "t" -> 116 [] c = "w" -> 119 [] c = "x" -> 120 [] c = "z" -> 122]

\* str.lower() on one character: A..Z are 32 below a..z
LowerChar(c) ==
    IF CharCode[c] >= 65 /\ CharCode[c] <= 90
    THEN CHOOSE d \in DOMAIN CharCode : CharCode[d] = CharCode[c] + 32
    ELSE c

Lower(s) == [i \in 1..Len(s) |-> LowerChar(s[i])]

EndsWith(s, suffix) ==
    /\ Len(suffix) <= Len(s)
    /\ SubSeq(s, Len(s) - Len(suffix) + 1, Len(s)) = suffix

\* Python's `sub in s`
Contains(sub, s) ==
    \E i \in 0..(Len(s) - Len(sub)) : SubSeq(s, i + 1, i + Len(sub)) = sub

\* s.split(sep)[0]: the text before the first sep, all of s when there is none
SplitFirst(s, sep) ==
    IF \E i \in 1..Len(s) : s[i] = sep
    THEN SubSeq(s, 1, (CHOOSE i \in 1..Len(s) :
                          /\ s[i] = sep
                          /\ \A j \in 1..(i - 1) : s[j] # sep) - 1)
    ELSE s

\* str.strip(): leading and trailing blanks removed
Strip(s) ==
    IF \A i \in 1..Len(s) : s[i] = " " THEN <<>>
    ELSE LET first == CHOOSE i \in 1..Len(s) :
                          s[i] # " " /\ \A j \in 1..(i - 1) : s[j] = " "
             last == CHOOSE i \in 1..Len(s) :
                          s[i] # " " /\ \A j \in (i + 1)..Len(s) : s[j] = " "
         IN SubSeq(s, first, last)

\* Python's s < t on str: by code point, a proper prefix first
StrLess(s, t) ==
    \E k \in 1..(Len(t)) :
        /\ \A j \in 1..(k - 1) : j <= Len(s) /\ s[j] = t[j]
        /\ \/ k = Len(s) + 1
           \/ k <= Len(s) /\ CharCode[s[k]] < CharCode[t[k]]

\* sorted(set of str)
RECURSIVE SortedStrs(_)
SortedStrs(S) ==
    IF S = {} THEN <<>>
    ELSE LET least == CHOOSE s \in S : \A t \in S \ {s} : StrLess(s, t)
         IN <<least>> \o SortedStrs(S \ {least})

SeqToSet(q) == {q[i] : i \in 1..Len(q)}

----------------------------------------------------------------------------
(* Table cells.  A cell is text (as extracted from a statement), a float, *)
(* NaN, or a timestamp.                                                    *)

Text(s) == [ty |-> "str", s |-> s, n |-> 0]
Num(n) == [ty |-> "float", s |-> <<>>, n |-> n]
NaN == [ty |-> "nan", s |-> <<>>, n |-> 0]
Timestamp(n) == [ty |-> "datetime", s |-> <<>>, n |-> n]

IsDigit(c) == CharCode[c] >= 48 /\ CharCode[c] <= 57

\* the value of a sequence of decimal digits
RECURSIVE DigitsValue(_)
DigitsValue(s) ==
    IF s = <<>> THEN 0
    ELSE 10 * DigitsValue(SubSeq(s, 1, Len(s) - 1)) + (CharCode[s[Len(s)]] - 48)

\* pd.to_numeric(column, errors='coerce') on one cell: text that is a number
\* becomes that number, any other text becomes NaN, a number stays
to_numeric(c) ==
    IF c.ty = "str"
    THEN IF c.s # <<>> /\ \A i \in 1..Len(c.s) : IsDigit(c.s[i])
         THEN Num(DigitsValue(c.s))
         ELSE NaN
    ELSE c

\* %b: the month of an abbreviated month name, 0 when it is none (the model's
\* dates are in February or December)
MonthNumber(abbr) ==
    CASE Lower(abbr) = <<"f", "e", "b">> -> 2
      [] Lower(abbr) = <<"d", "e", "c">> -> 12
      [] OTHER -> 0

\* whether text matches the format '%d-%b-%Y' ("05-Feb-2025")
MatchesDayMonYear(s) ==
    /\ Len(s) = 11
    /\ IsDigit(s[1]) /\ IsDigit(s[2]) /\ s[3] = "-"
    /\ MonthNumber(SubSeq(s, 4, 6)) # 0 /\ s[7] = "-"
    /\ \A i \in 8..11 : IsDigit(s[i])

\* pd.to_datetime(text, format='%d-%b-%Y') on text that matches
to_datetime(s) ==
    Timestamp(DigitsValue(SubSeq(s, 8, 11)) * 10000
              + MonthNumber(SubSeq(s, 4, 6)) * 100
              + DigitsValue(SubSeq(s, 1, 2)))

----------------------------------------------------------------------------
(* The data the model draws its inputs from *)

PAN1 == <<"A", "B", "1">>
PAN2 == <<"C", "D", "2">>
\* "Family - Plan" names; "Ex - G" and "Ex - D" share the family "Ex"
FundExG == <<"E", "x", " ", "-", " ", "G">>
FundExD == <<"E", "x", " ", "-", " ", "D">>
FundZed == <<"Z", "e", "d">>
DateOk == <<"0", "5", "-", "F", "e", "b", "-", "2", "0", "2", "5">>
DateIso == <<"2", "0", "2", "5", "-", "0", "2", "-", "0", "5">>

\* fund identifiers
IsinOf(fund) ==
    IF fund = Text(FundExG) THEN <<"I", "1">>
    ELSE IF fund = Text(FundExD) THEN <<"I", "2">>
    ELSE IF fund = Text(FundZed) THEN <<"I", "3">>
    ELSE <<>>

Row(pan, fund, txn, date, amount, units, nav) ==
    [pan |-> pan, fund_name |-> fund, isin |-> IsinOf(fund), txn |-> txn,
     date |-> Text(date), amount |-> Text(amount), units |-> Text(units),
     nav |-> Text(nav)]

\* the transaction rows statements are made of
RowBuy1000 ==
    Row(PAN1, Text(FundExG), "Buy", DateOk, <<"1", "0", "0", "0">>, <<"1", "0", "0">>, <<"1", "0">>)
RowBuy500 ==
    Row(PAN1, Text(FundExG), "Buy", DateOk, <<"5", "0", "0">>, <<"5", "0">>, <<"1", "0">>)
RowSell ==
    Row(PAN1, Text(FundExG), "Sell", DateOk, <<"2", "0", "0">>, <<"2", "0">>, <<"1", "0">>)
RowZeroAmount ==
    Row(PAN2, Text(FundExD), "Buy", DateOk, <<"0">>, <<"5", "0">>, <<"0">>)
RowNonNumeric ==
    Row(PAN2, Text(FundZed), "Buy", DateOk, <<"a", "b", "c">>, <<"1", "0">>, <<"5">>)
RowIsoDate ==
    Row(PAN2, Text(FundZed), "Buy", DateIso, <<"5", "0", "0">>, <<"5", "0">>, <<"1", "0">>)
RowNoFund ==
    Row(PAN1, Text(<<>>), "Buy", DateOk, <<"5", "0", "0">>, <<"5", "0">>, <<"1", "0">>)
RowNaNFund ==
    Row(PAN2, NaN, "Dividend", DateOk, <<"5", "0">>, <<"0">>, <<"1", "0">>)

RowCatalog ==
    {RowBuy1000, RowBuy500, RowSell, RowZeroAmount, RowNonNumeric, RowIsoDate,
     RowNoFund, RowNaNFund}

\* a pandas DataFrame, or None
NoneDf == [none |-> TRUE, rows |-> <<>>]
Df(rows) == [none |-> FALSE, rows |-> rows]

\* pd.concat(frames): the frames' rows, in order
RECURSIVE concat(_)
concat(frames) ==
    IF frames = <<>> THEN <<>> ELSE Head(frames).rows \o concat(Tail(frames))

----------------------------------------------------------------------------
(* Uploaded files, passwords and the Ingestion Adapter (ProcessPDF) *)

MAX_FILE_SIZE == 52428800

NamePdf == <<"a", ".", "p", "d", "f">>
NameUpper == <<"b", ".", "P", "D", "F">>
NameTxt == <<"c", ".", "t", "x", "t">>
DotPdf == <<".", "p", "d", "f">>

FileCatalog ==
    [name : {NamePdf, NameUpper, NameTxt}, size : {MAX_FILE_SIZE, MAX_FILE_SIZE + 1}]

PasswordCatalog == {<<>>, <<"p", "w">>}

\* What ProcessPDF(name, password).get_pdf_data(output_format="df") does for a
\* file: it raises or it returns a table.  (The scripts also provide for a
\* return value of None, kind "none": camspdf_gui.py 58 raises on it,
\* gui2.py 21 skips it.)
Raises(msg) == [kind |-> "raise", msg |-> msg, rows |-> <<>>]
ReturnsDf(rows) == [kind |-> "df", msg |-> "", rows |-> rows]

\* str(e) of the TypeError of `df['source_file'] = ...` on None
NoneTypeMsg == "'NoneType' object does not support item assignment"

----------------------------------------------------------------------------
(* validate_file *)

\* the checks of validate_file, in order: "size", "type" or "ok"
validate_file(uploaded_file) ==
    IF uploaded_file.size > MAX_FILE_SIZE THEN "size"
    ELSE IF ~EndsWith(Lower(uploaded_file.name), DotPdf) THEN "type"
    ELSE "ok"

----------------------------------------------------------------------------
(* process_pdf_files: the loop's state and one iteration *)

\* The loop's locals (all_dataframes, error_files) and its effects: the files
\* in the working directory (tmp_files), the st.error / st.warning messages
\* shown, and, by position in the batch, the files for which the loop body
\* was entered (attempted), open(name, "wb") was executed (written) and
\* ProcessPDF was invoked (invoked).
EmptyBatch ==
    [all_dataframes |-> <<>>, error_files |-> <<>>, tmp_files |-> {},
     messages |-> <<>>, attempted |-> {}, written |-> {}, invoked |-> {}]

Msg(level, what, name) == [level |-> level, what |-> what, name |-> name]

\* df['source_file'] = name
WithSource(rows, name) ==
    [i \in 1..Len(rows) |->
        [f \in DOMAIN rows[i] \cup {"source_file"} |->
            IF f = "source_file" THEN name ELSE rows[i][f]]]

\* the except branch with the file left out of the error list
OnExceptionUnrecorded(b, name, msg) ==
    [b EXCEPT !.messages = Append(@, Msg("error", msg, name)),
              !.tmp_files = @ \ {name}]

\* the except branch: camspdf_gui.py 63-67
OnException(b, name, msg) ==
    [b EXCEPT !.messages = Append(@, Msg("error", msg, name)),
              !.error_files = Append(@, [name |-> name]),
              !.tmp_files = @ \ {name}]

\* the body of the try, after the temporary file was written: camspdf_gui.py 49-61
Extract(b, i, f, password, outcome) ==
    IF password = <<>>
    THEN [b EXCEPT !.messages = Append(@, Msg("warning", "No password provided", f.name)),
                   !.error_files = Append(@, [name |-> f.name]),
                   !.tmp_files = @ \ {f.name}]
    ELSE LET c == [b EXCEPT !.invoked = @ \cup {i}]
         IN CASE outcome.kind = "raise" -> OnException(c, f.name, outcome.msg)
              [] outcome.kind = "none" -> OnException(c, f.name, NoneTypeMsg)
              [] outcome.kind = "df" ->
                    [c EXCEPT !.all_dataframes =
                                  Append(@, Df(WithSource(outcome.rows, f.name))),
                              !.tmp_files = @ \ {f.name}]

\* one iteration of the loop of camspdf_gui.py (35-67) and of its copy
ProcessFileGui(b, i, f, password, outcome) ==
    LET a == [b EXCEPT !.attempted = @ \cup {i}]
        v == validate_file(f)
    IN IF v # "ok"
       THEN [a EXCEPT !.messages = Append(@, Msg("error", v, f.name)),
                      !.error_files = Append(@, [name |-> f.name])]
       ELSE Extract([a EXCEPT !.tmp_files = @ \cup {f.name},
                              !.written = @ \cup {i}],
                    i, f, password, outcome)

\* one iteration of the loop of gui2.py (11-25)
ProcessFileGui2(b, i, f, password, outcome) ==
    LET a == [b EXCEPT !.attempted = @ \cup {i},
                       !.tmp_files = @ \cup {f.name},
                       !.written = @ \cup {i},
                       !.invoked = @ \cup {i}]
    IN CASE outcome.kind = "raise" ->
                [a EXCEPT !.error_files = Append(@, [name |-> f.name, msg |-> outcome.msg])]
         [] outcome.kind = "none" -> a
         [] outcome.kind = "df" ->
                [a EXCEPT !.all_dataframes = Append(@, Df(outcome.rows))]

ProcessFile(v, b, i, f, password, outcome) ==
    IF v = "gui2" THEN ProcessFileGui2(b, i, f, password, outcome)
    ELSE ProcessFileGui(b, i, f, password, outcome)

\* combined_df = pd.concat(all_dataframes) if all_dataframes else None
Combine(all_dataframes) ==
    IF all_dataframes # <<>> THEN Df(concat(all_dataframes)) ELSE NoneDf

\* the whole loop over zip(uploaded_files, passwords), from position i
RECURSIVE RunLoop(_, _, _, _, _, _)
RunLoop(v, b, i, files, pws, outs) ==
    IF i > Len(files) \/ i > Len(pws) THEN b
    ELSE RunLoop(v, ProcessFile(v, b, i, files[i], pws[i], outs[i]), i + 1, files, pws, outs)

----------------------------------------------------------------------------
(* SpecBatch: process_pdf_files, one loop iteration per step *)

NotReturned == [done |-> FALSE, combined_df |-> NoneDf, error_files |-> <<>>]

\* the statements the Ingestion Adapter returns in SpecBatch
BatchOutcomes ==
    { Raises("Incorrect password"), ReturnsDf(<<RowSell>>) }

IdleVal == <<>>

InitSession ==
    /\ session_combined_df = NoneDf
    /\ session_investment_summary = NoneDf
    /\ selected_pans = <<>>
    /\ selected_funds = <<>>
    /\ widgets = <<>>
    /\ run_log = <<>>
    /\ uploads = 0
    /\ pc = "idle"
    /\ rendered = {}
    /\ exception = ""
    /\ filtered_summary = <<>>
    /\ main_combined_df = NoneDf
    /\ toggled = <<>>

InitBatch ==
    /\ variant \in {"gui", "gui2", "copy"}
    /\ \E n \in 1..MaxFiles :
          /\ uploaded_files \in [1..n -> FileCatalog]
          /\ passwords \in [1..n -> PasswordCatalog]
          /\ adapter \in [1..n -> BatchOutcomes]
    /\ idx = 1
    /\ batch = EmptyBatch
    /\ returned = NotReturned
    /\ val_df = NoneDf /\ val_before = NoneDf /\ val_out = IdleVal
    /\ nav_source = <<>>
    /\ widget_identity = "params"
    /\ InitSession

\* a failure makes the loop stop instead of going on to the next file
StepFileStopsOnFailure ==
    /\ ~returned.done
    /\ idx <= Len(uploaded_files)
    /\ batch' = ProcessFile(variant, batch, idx, uploaded_files[idx],
                            passwords[idx], adapter[idx])
    /\ idx' = IF Len(batch'.error_files) > Len(batch.error_files)
              THEN Len(uploaded_files) + 1 ELSE idx + 1
    /\ UNCHANGED <<variant, uploaded_files, passwords, adapter, returned,
                   valVars, nav_source, appVars>>

\* one iteration of `for uploaded_file, password in zip(uploaded_files, passwords)`
StepFile ==
    /\ ~returned.done
    /\ idx <= Len(uploaded_files)
    /\ batch' = ProcessFile(variant, batch, idx, uploaded_files[idx],
                            passwords[idx], adapter[idx])
    /\ idx' = idx + 1
    /\ UNCHANGED <<variant, uploaded_files, passwords, adapter, returned,
                   valVars, nav_source, appVars>>

\* after the loop: combine, store (camspdf_gui.py 71 only) and return
ReturnBatch ==
    /\ ~returned.done
    /\ idx > Len(uploaded_files)
    /\ LET combined_df == Combine(batch.all_dataframes)
       IN /\ returned' = [done |-> TRUE, combined_df |-> combined_df,
                          error_files |-> batch.error_files]
          /\ session_combined_df' =
                 IF variant = "gui" THEN combined_df ELSE session_combined_df
    /\ UNCHANGED <<variant, uploaded_files, passwords, adapter, idx, batch,
                   valVars, nav_source, session_investment_summary,
                   selected_pans, selected_funds, widgets, widget_identity, run_log,
                   uploads, pc, rendered, exception, filtered_summary, main_combined_df,
                   toggled>>

NextBatch == StepFile \/ ReturnBatch

SpecBatch == InitBatch /\ [][NextBatch]_vars

----------------------------------------------------------------------------
(* Claims about process_pdf_files *)

Names(error_files) == {error_files[k].name : k \in 1..Len(error_files)}

\* C1: every uploaded file is accounted for exactly once: each attempted file
\* added exactly one entry, to the error list or to the tables that make up
\* the combined result, so that when process_pdf_files returns the error
\* entries and the contributing files together number the uploaded files.
C1_EveryFileAccountedOnce ==
    /\ Len(batch.error_files) + Len(batch.all_dataframes) = Cardinality(batch.attempted)
    /\ returned.done =>
          Len(returned.error_files) + Len(batch.all_dataframes) = Len(uploaded_files)

\* a batch of two files has returned: one file is in the error list, the
\* other contributed its table
C1_Witness ==
    /\ returned.done
    /\ Len(uploaded_files) = 2
    /\ Len(returned.error_files) = 1
    /\ Len(batch.all_dataframes) = 1

\* the failures of C2: a validation failure or a missing password (where the
\* script checks them) and an exception of the Ingestion Adapter
FailsInBatch(i) ==
    IF variant = "gui2" THEN adapter[i].kind = "raise"
    ELSE \/ uploaded_files[i].size > MAX_FILE_SIZE
         \/ ~EndsWith(Lower(uploaded_files[i].name), DotPdf)
         \/ passwords[i] = <<>>
         \/ adapter[i].kind = "raise"

\* C2: a failure on one file never prevents a later file from being
\* attempted: the loop can always take its next step until it has returned,
\* at its return every file of the batch was attempted, every failed file is
\* in the error list, and the list is handed back only by the return, after
\* the last file.
C2_FailureDoesNotStopBatch ==
    /\ ~returned.done => ENABLED NextBatch
    /\ batch.attempted = 1..(idx - 1)
    /\ returned.done => batch.attempted = 1..Len(uploaded_files)
    /\ \A i \in batch.attempted :
          FailsInBatch(i) => uploaded_files[i].name \in Names(batch.error_files)
    /\ Len(batch.error_files) >= Cardinality({i \in batch.attempted : FailsInBatch(i)})
    /\ ~returned.done => returned.error_files = <<>>
    /\ returned.done => returned.error_files = batch.error_files

\* a batch whose first file failed and whose second file was still attempted
C2_Witness ==
    /\ returned.done
    /\ Len(uploaded_files) >= 2
    /\ FailsInBatch(1)
    /\ 2 \in batch.attempted
    /\ Len(returned.error_files) >= 1

\* C3: a file whose name does not end in .pdf (case-insensitively) or whose
\* size exceeds 50 MB is rejected before the Ingestion Adapter is invoked and
\* before a temporary file is written for it, and is in the error list, with
\* a validation reason reported for it and no ingestion failure.
C3_InvalidRejectedBeforeIngestion ==
    \A i \in batch.attempted :
        LET f == uploaded_files[i]
        IN (f.size > 50 * 1024 * 1024 \/ ~EndsWith(Lower(f.name), DotPdf)) =>
              /\ i \notin batch.written
              /\ i \notin batch.invoked
              /\ f.name \in Names(batch.error_files)
              /\ \E k \in 1..Len(batch.messages) :
                    /\ batch.messages[k].name = f.name
                    /\ batch.messages[k].what \in {"size", "type"}

\* C4: a temporary file written for a file of the batch no longer exists once
\* that file's processing has finished, whatever the outcome; after the batch
\* no temporary file of the batch remains.
C4_NoTemporaryFileRemains ==
    /\ \A i \in batch.written : uploaded_files[i].name \notin batch.tmp_files
    /\ returned.done => batch.tmp_files = {}

----------------------------------------------------------------------------
(* The NAV source, _LatestNav *)

NavEntry(scheme_name, isin_growth, isin_div_reinv, nav) ==
    [scheme_name |-> scheme_name, isin_growth |-> isin_growth,
     isin_div_reinv |-> isin_div_reinv, nav |-> nav]

NavEx == NavEntry(<<"E", "X", " ", "P">>, <<"I", "1">>, <<"I", "2">>, <<"1", "2">>)
NavZed == NavEntry(<<"Z", "E", "D">>, <<"I", "3">>, <<"I", "9">>, <<"5">>)

\* the NAV source is unreachable, or reachable with the entries published
NavSources ==
    { [reachable |-> FALSE, alldata |-> <<>>],
      [reachable |-> TRUE, alldata |-> <<>>],
      [reachable |-> TRUE, alldata |-> <<NavEx>>],
      [reachable |-> TRUE, alldata |-> <<NavZed, NavEx>>] }

\* What the constructor _LatestNav() can do: with the source reachable it
\* returns an object whose alldata are the published entries; with the source
\* unreachable it raises, or returns an object with no entries.
LatestNav(source) ==
    IF source.reachable
    THEN {[raised |-> FALSE, alldata |-> source.alldata]}
    ELSE {[raised |-> TRUE, alldata |-> <<>>], [raised |-> FALSE, alldata |-> <<>>]}

----------------------------------------------------------------------------
(* Floats that are not whole numbers: num / den in lowest terms. den = 0 is *)
(* what a division by zero leaves (inf or NaN).                            *)

Abs(n) == IF n < 0 THEN -n ELSE n

RECURSIVE GCD(_, _)
GCD(a, b) == IF b = 0 THEN a ELSE GCD(b, a % b)

Ratio(n, d) ==
    IF d = 0 THEN [num |-> IF n > 0 THEN 1 ELSE IF n < 0 THEN -1 ELSE 0, den |-> 0]
    ELSE LET g == GCD(Abs(n), Abs(d))
             sign == IF d < 0 THEN -1 ELSE 1
         IN [num |-> sign * (n \div g), den |-> sign * (d \div g)]

----------------------------------------------------------------------------
(* prepare_investment_data, camspdf_gui.py 75-141 *)

Completed(summary) == [raised |-> FALSE, error |-> "", summary |-> summary]
Raised(error) == [raised |-> TRUE, error |-> error, summary |-> <<>>]

\* df[df['fund_name'].notna() & (df['fund_name'] != '')]
DropMissingFunds(rows) ==
    SelectSeq(rows, LAMBDA r : r.fund_name.ty = "str" /\ r.fund_name.s # <<>>)

\* pd.to_datetime(df['date'], format='%d-%b-%Y') raises on text of another format
BadDate(rows) ==
    \E i \in 1..Len(rows) : rows[i].date.ty = "str" /\ ~MatchesDayMonYear(rows[i].date.s)

\* lines 84-87: the date, amount, units and nav columns typed
TypedColumns(rows) ==
    [i \in 1..Len(rows) |->
        [rows[i] EXCEPT !.date = IF @.ty = "str" THEN to_datetime(@.s) ELSE @,
                        !.amount = to_numeric(@),
                        !.units = to_numeric(@),
                        !.nav = to_numeric(@)]]

\* buy_df = df[df['txn'] == 'Buy'], without the filter
BuyRowsUnfiltered(rows) == rows

\* buy_df = df[df['txn'] == 'Buy']
BuyRows(rows) == SelectSeq(rows, LAMBDA r : r.txn = "Buy")

\* the sum of a column over a group: NaN is skipped
RECURSIVE GroupSum(_, _, _)
GroupSum(rows, key, col) ==
    IF rows = <<>> THEN 0
    ELSE LET r == Head(rows)
         IN (IF <<r.pan, r.fund_name.s>> = key /\ r[col].ty = "float" THEN r[col].n ELSE 0)
            + GroupSum(Tail(rows), key, col)

\* the number of cells of a column in a group that are not NaN
RECURSIVE GroupCount(_, _, _)
GroupCount(rows, key, col) ==
    IF rows = <<>> THEN 0
    ELSE LET r == Head(rows)
         IN (IF <<r.pan, r.fund_name.s>> = key /\ r[col].ty = "float" THEN 1 ELSE 0)
            + GroupCount(Tail(rows), key, col)

KeyLess(k, l) == StrLess(k[1], l[1]) \/ (k[1] = l[1] /\ StrLess(k[2], l[2]))

\* groupby sorts the groups by their keys
RECURSIVE SortedKeys(_)
SortedKeys(K) ==
    IF K = {} THEN <<>>
    ELSE LET least == CHOOSE k \in K : \A l \in K \ {k} : KeyLess(k, l)
         IN <<least>> \o SortedKeys(K \ {least})

\* buy_df.groupby(['pan', 'fund_name']).agg(amount sum, units sum, nav mean)
\*       .reset_index()
GroupBy(buy) ==
    LET keys == SortedKeys({<<buy[i].pan, buy[i].fund_name.s>> : i \in 1..Len(buy)})
    IN [g \in 1..Len(keys) |->
           [pan |-> keys[g][1], fund_name |-> keys[g][2],
            amount |-> GroupSum(buy, keys[g], "amount"),
            units |-> GroupSum(buy, keys[g], "units"),
            nav |-> Ratio(GroupSum(buy, keys[g], "nav"), GroupCount(buy, keys[g], "nav"))]]

\* whether a NAV entry matches a fund name: lines 105-106
NavMatches(fund_name, nav) ==
    \/ Contains(Lower(fund_name), Lower(nav.scheme_name))
    \/ Contains(Lower(Strip(SplitFirst(fund_name, "-"))), Lower(nav.scheme_name))

\* float(x): the number a text spells, a ValueError when it spells none
FloatOk(n) == [ok |-> TRUE, v |-> n]
FloatError == [ok |-> FALSE, v |-> 0]
Float(text) ==
    IF text # <<>> /\ \A i \in 1..Len(text) : IsDigit(text[i])
    THEN FloatOk(DigitsValue(text)) ELSE FloatError

\* get_current_nav: the first matching entry's NAV, 0 when nothing matches
get_current_nav(fund_name, alldata) ==
    LET matching_navs == SelectSeq(alldata, LAMBDA nav : NavMatches(fund_name, nav))
    IN IF matching_navs # <<>> THEN Float(matching_navs[1].nav) ELSE FloatOk(0)

\* np.where(amount != 0, gain / amount * 100, 0), without the guard
return_percentage_unguarded(unrealized_gain, amount) ==
    Ratio(unrealized_gain * 100, amount)

\* np.where(amount != 0, gain / amount * 100, 0)
return_percentage(unrealized_gain, amount) ==
    IF amount # 0 THEN Ratio(unrealized_gain * 100, amount) ELSE Ratio(0, 1)

\* lines 117-136 for one group
SummaryRow(g, current_nav) ==
    LET current_value == g.units * current_nav
        unrealized_gain == current_value - g.amount
    IN [pan |-> g.pan, fund_name |-> g.fund_name,
        amount_invested |-> g.amount, total_units |-> g.units, avg_price |-> g.nav,
        current_price |-> current_nav, current_value |-> current_value,
        unrealized_gain |-> unrealized_gain,
        return_percentage |-> return_percentage(unrealized_gain, g.amount)]

\* prepare_investment_data(df) with lnav what _LatestNav() did.  The table
\* passed in is left as it was: line 78 makes the copy the later lines type.
\* With no group at all, investment_summary.apply(..., axis=1) returns an empty
\* DataFrame and assigning it to the column 'current_nav' raises.
prepare_investment_data(rows, lnav) ==
    LET df == DropMissingFunds(rows)
    IN IF lnav.raised THEN Raised("NavSourceError")
       ELSE IF BadDate(df) THEN Raised("ValueError: time data does not match format")
       ELSE LET groups == GroupBy(BuyRows(TypedColumns(df)))
                navs == [g \in 1..Len(groups) |->
                            get_current_nav(groups[g].fund_name, lnav.alldata)]
            IN IF groups = <<>>
               THEN Raised("ValueError: cannot set a DataFrame with multiple columns")
               ELSE IF \E g \in 1..Len(groups) : ~navs[g].ok
               THEN Raised("ValueError: could not convert string to float")
               ELSE Completed([g \in 1..Len(groups) |-> SummaryRow(groups[g], navs[g].v)])

----------------------------------------------------------------------------
(* prepare_investment_data, gui2.py 30-51: the table passed in is typed and *)
(* extended in place and is the table returned                             *)

\* float arithmetic on cells: NaN in, NaN out
CellMul(a, b) == IF a.ty = "float" /\ b.ty = "float" THEN Num(a.n * b.n) ELSE NaN
CellSub(a, b) == IF a.ty = "float" /\ b.ty = "float" THEN Num(a.n - b.n) ELSE NaN

\* float(next((nav.nav for nav in lnav.alldata
\*             if nav.isin_growth == x or nav.isin_div_reinv == x), 0))
nav_by_isin(x, alldata) ==
    LET found == SelectSeq(alldata,
                           LAMBDA nav : nav.isin_growth = x \/ nav.isin_div_reinv = x)
    IN IF found # <<>> THEN Float(found[1].nav) ELSE FloatOk(0)

\* lines 36-49 on one row
ValuedRow(r, current_nav) ==
    LET amount == to_numeric(r.amount)
        units == to_numeric(r.units)
        nav == to_numeric(r.nav)
        current_value == CellMul(units, Num(current_nav))
    IN [f \in DOMAIN r \cup {"current_nav", "current_value", "unrealized_gain",
                              "todays_gain"} |->
           CASE f = "amount" -> amount
             [] f = "units" -> units
             [] f = "nav" -> nav
             [] f = "current_nav" -> Num(current_nav)
             [] f = "current_value" -> current_value
             [] f = "unrealized_gain" -> CellSub(current_value, amount)
             [] f = "todays_gain" -> CellMul(units, CellSub(Num(current_nav), nav))
             [] OTHER -> r[f]]

\* The result and, in df, the caller's table after the call.  The numeric
\* columns are assigned (lines 36-38) before the NAV lookup can raise.
prepare_investment_data_gui2(rows, lnav) ==
    IF lnav.raised THEN [raised |-> TRUE, error |-> "NavSourceError", summary |-> <<>>,
                         df |-> rows]
    ELSE LET navs == [i \in 1..Len(rows) |-> nav_by_isin(rows[i].isin, lnav.alldata)]
             typed == [i \in 1..Len(rows) |->
                          [rows[i] EXCEPT !.amount = to_numeric(@),
                                          !.units = to_numeric(@),
                                          !.nav = to_numeric(@)]]
         IN IF \E i \in 1..Len(rows) : ~navs[i].ok
            THEN [raised |-> TRUE, error |-> "ValueError: could not convert string to float",
                  summary |-> <<>>, df |-> typed]
            ELSE LET valued == [i \in 1..Len(rows) |-> ValuedRow(rows[i], navs[i].v)]
                 IN [raised |-> FALSE, error |-> "", summary |-> valued, df |-> valued]

----------------------------------------------------------------------------
(* SpecVal: the valuation function called twice on one table *)

\* the tables valuation is given: up to MaxRows rows of the catalog
ValTables == UNION {[1..n -> RowCatalog] : n \in 0..MaxRows}

InitVal ==
    /\ variant \in {"gui", "gui2"}
    /\ \E rows \in ValTables : val_df = Df(rows) /\ val_before = Df(rows)
    /\ val_out = <<>>
    /\ nav_source \in NavSources
    /\ uploaded_files = <<>> /\ passwords = <<>> /\ adapter = <<>>
    /\ idx = 1 /\ batch = EmptyBatch /\ returned = NotReturned
    /\ widget_identity = "params"
    /\ InitSession

\* one call of prepare_investment_data on the caller's table
Valuate ==
    /\ Len(val_out) < 2
    /\ \E lnav \in LatestNav(nav_source) :
          IF variant = "gui2"
          THEN LET r == prepare_investment_data_gui2(val_df.rows, lnav)
               IN /\ val_out' = Append(val_out, [raised |-> r.raised, error |-> r.error,
                                                 summary |-> r.summary])
                  /\ val_df' = Df(r.df)
          ELSE /\ val_out' = Append(val_out, prepare_investment_data(val_df.rows, lnav))
               /\ val_df' = val_df
    /\ UNCHANGED <<variant, val_before, nav_source, batchVars, appVars>>

NextVal == Valuate

SpecVal == InitVal /\ [][NextVal]_vars

----------------------------------------------------------------------------
(* Claims about valuation *)

\* the calls of camspdf_gui.py's prepare_investment_data that returned a summary
CompletedCalls ==
    {k \in 1..Len(val_out) : variant = "gui" /\ ~val_out[k].raised}

\* the Buy transactions of the table that name a fund
BuyTransactions ==
    {i \in 1..Len(val_before.rows) :
        /\ val_before.rows[i].txn = "Buy"
        /\ val_before.rows[i].fund_name.ty = "str"
        /\ val_before.rows[i].fund_name.s # <<>>}

PairOf(i) == <<val_before.rows[i].pan, val_before.rows[i].fund_name.s>>

\* the number a cell's text spells, 0 when it spells none
Amount(cell) ==
    IF cell.s # <<>> /\ \A c \in SeqToSet(cell.s) : IsDigit(c) THEN DigitsValue(cell.s) ELSE 0

RECURSIVE TotalOver(_, _)
TotalOver(I, col) ==
    IF I = {} THEN 0
    ELSE LET i == CHOOSE j \in I : TRUE
         IN Amount(val_before.rows[i][col]) + TotalOver(I \ {i}, col)

\* two statements' Buys of 1000 for 100 units and 500 for 50 units of one fund
ScenarioTable == <<RowBuy1000, RowBuy500>>

\* C6: the summary has exactly one row per distinct (owner, fund) pair of the
\* table's Buy transactions, Sell and Dividend rows contribute nothing, and a
\* row's amount invested and total units are the sums of the pair's Buy
\* amounts and units; Buys of 1000/100 units and 500/50 units with a matched
\* NAV of 12 give units 150, invested 1500, value 1800, gain 300, return 20.
C6_OneRowPerBuyPair ==
    \A k \in CompletedCalls :
        LET summary == val_out[k].summary
        IN /\ Len(summary) = Cardinality({PairOf(i) : i \in BuyTransactions})
           /\ {<<summary[j].pan, summary[j].fund_name>> : j \in 1..Len(summary)}
                 = {PairOf(i) : i \in BuyTransactions}
           /\ \A j \in 1..Len(summary) :
                 LET group == {i \in BuyTransactions :
                                  PairOf(i) = <<summary[j].pan, summary[j].fund_name>>}
                 IN /\ summary[j].amount_invested = TotalOver(group, "amount")
                    /\ summary[j].total_units = TotalOver(group, "units")
           /\ (val_before.rows = ScenarioTable /\ nav_source.alldata = <<NavEx>>) =>
                 /\ Len(summary) = 1
                 /\ summary[1].total_units = 150
                 /\ summary[1].amount_invested = 1500
                 /\ summary[1].current_price = 12
                 /\ summary[1].current_value = 1800
                 /\ summary[1].unrealized_gain = 300
                 /\ summary[1].return_percentage = [num |-> 20, den |-> 1]

\* the scenario of C6 valued, and a table with a Sell row valued
C6_Witness ==
    /\ CompletedCalls # {}
    /\ val_before.rows = ScenarioTable
    /\ nav_source.alldata = <<NavEx>>

\* C7: in every summary row current value = total units x current price,
\* unrealized gain = current value - amount invested, and the return
\* percentage is unrealized gain / amount invested x 100 when amount invested
\* is not 0 and exactly 0, not the result of a division by zero, when it is 0.
C7_DerivedMetrics ==
    \A k \in CompletedCalls :
        \A j \in 1..Len(val_out[k].summary) :
            LET r == val_out[k].summary[j]
            IN /\ r.current_value = r.total_units * r.current_price
               /\ r.unrealized_gain = r.current_value - r.amount_invested
               /\ r.amount_invested # 0 =>
                     /\ r.return_percentage.den > 0
                     /\ r.return_percentage.num * r.amount_invested
                           = r.unrealized_gain * 100 * r.return_percentage.den
               /\ r.amount_invested = 0 => r.return_percentage = [num |-> 0, den |-> 1]

\* a summary with a row whose amount invested is 0 and units are held, and a
\* row whose amount invested is not 0
C7_Witness ==
    \E k \in CompletedCalls :
        /\ \E j \in 1..Len(val_out[k].summary) :
              /\ val_out[k].summary[j].amount_invested = 0
              /\ val_out[k].summary[j].current_value > 0
        /\ \E j \in 1..Len(val_out[k].summary) :
              /\ val_out[k].summary[j].amount_invested > 0
              /\ val_out[k].summary[j].unrealized_gain > 0

\* C8: valuation never aborts because of the NAV source, and a fund for which
\* the source has no matching entry (nothing matches, the source is empty or
\* unreachable) gets current price 0, current value 0 and an unrealized gain
\* of minus the amount invested.
C8_NavSourceNeverAbortsValuation ==
    \A k \in 1..Len(val_out) :
        variant = "gui" =>
            /\ val_out[k].error # "NavSourceError"
            /\ ~val_out[k].raised =>
                  \A j \in 1..Len(val_out[k].summary) :
                      LET r == val_out[k].summary[j]
                      IN (~nav_source.reachable
                          \/ \A e \in SeqToSet(nav_source.alldata) :
                                ~NavMatches(r.fund_name, e)) =>
                            /\ r.current_price = 0
                            /\ r.current_value = 0
                            /\ r.unrealized_gain = -r.amount_invested

\* C9: two calls of the valuation function in succession on one table give
\* identical results, and the table is after a call what it was before it.
C9_ValuationIdempotentNoMutation ==
    /\ (Len(val_out) = 2 /\ ~val_out[1].raised /\ ~val_out[2].raised) =>
          val_out[1].summary = val_out[2].summary
    /\ Len(val_out) >= 1 => val_df = val_before

\* the rows of the table whose date is text of another format than
\* day-month-year ("2025-02-05")
UnparseableRows ==
    {i \in 1..Len(val_before.rows) :
        /\ val_before.rows[i].date.ty = "str"
        /\ val_before.rows[i].date.s = DateIso}

\* C14: a row whose date does not match the day-month-year format does not
\* abort valuation: no call of prepare_investment_data on a table with such a
\* row ends with the date parser's error.
C14_UnparseableDateDoesNotAbort ==
    \A k \in 1..Len(val_out) :
        (variant = "gui" /\ UnparseableRows # {}) =>
            val_out[k].error # "ValueError: time data does not match format"

----------------------------------------------------------------------------
(* Streamlit: checkboxes with a key, and the state of one script run *)

PanKey(pan) == [kind |-> "pan", name |-> pan]
FundKey(simplified_fund) == [kind |-> "fund", name |-> simplified_fund]
\* the two download buttons of display_investment_summary
DownloadKeys == {[kind |-> "download", name |-> <<"c">>], [kind |-> "download", name |-> <<"x">>]}

\* Whether st.checkbox(..., value=value, key=key) finds its widget from the
\* previous run: by its key alone, or by its key and its parameters, of which
\* value is the one this script changes.
SameWidget(W, key, value) ==
    key \in DOMAIN W /\ (widget_identity = "key" \/ W[key].default = value)

\* what st.checkbox returns: the widget's state, or value for a new widget
CheckboxValue(W, key, value) == IF SameWidget(W, key, value) THEN W[key].value ELSE value

\* the widgets after the call
CheckboxState(W, key, value) ==
    IF SameWidget(W, key, value) THEN W
    ELSE [k \in DOMAIN W \cup {key} |->
             IF k = key THEN [value |-> value, default |-> value] ELSE W[k]]

\* list.remove(x): the first occurrence removed
RemoveFirst(q, x) ==
    LET i == CHOOSE j \in 1..Len(q) : q[j] = x /\ \A k \in 1..(j - 1) : q[k] # x
    IN SubSeq(q, 1, i - 1) \o SubSeq(q, i + 1, Len(q))

NoTotals == [total_invested |-> 0, total_current_value |-> 0, total_unrealized_gain |-> 0,
             total_return_percentage |-> Ratio(0, 1)]
Did(call) == [call |-> call, table |-> <<>>, totals |-> NoTotals]

\* the script run in progress: st.session_state, the widgets, the keys
\* rendered so far in this run, what the run did and the exception that ended it
Run ==
    [combined_df |-> session_combined_df,
     investment_summary |-> session_investment_summary,
     selected_pans |-> selected_pans, selected_funds |-> selected_funds,
     widgets |-> widgets, rendered |-> rendered, log |-> run_log,
     exception |-> exception]

\* a run that starts with the widgets W
StartRun(W) == [Run EXCEPT !.widgets = W, !.rendered = {}, !.log = <<>>, !.exception = ""]

\* the state a function leaves when it returns or raises
Commit(R) ==
    /\ session_combined_df' = R.combined_df
    /\ session_investment_summary' = R.investment_summary
    /\ selected_pans' = R.selected_pans
    /\ selected_funds' = R.selected_funds
    /\ widgets' = R.widgets
    /\ rendered' = R.rendered
    /\ run_log' = R.log
    /\ exception' = R.exception

----------------------------------------------------------------------------
(* create_investment_filters, camspdf_gui.py 143-238 *)

\* lines 166-180
RECURSIVE PanCheckboxes(_, _)
PanCheckboxes(R, pans) ==
    IF pans = <<>> \/ R.exception # "" THEN R
    ELSE LET pan == Head(pans)
             key == PanKey(pan)
             member == pan \in SeqToSet(R.selected_pans)
             pan_selected == CheckboxValue(R.widgets, key, member)
         IN IF key \in R.rendered
            THEN [R EXCEPT !.exception = "DuplicateWidgetID"]
            ELSE PanCheckboxes(
                    [R EXCEPT !.widgets = CheckboxState(@, key, member),
                              !.rendered = @ \cup {key},
                              !.selected_pans =
                                  IF pan_selected /\ ~member THEN Append(@, pan)
                                  ELSE IF ~pan_selected /\ member THEN RemoveFirst(@, pan)
                                  ELSE @],
                    Tail(pans))

\* lines 186-187
simplify_fund_name(name) == Strip(SplitFirst(name, "-"))

\* fund_name_mapping[simplified]: the fund names of the table's rows, in row
\* order, that simplify to it
FundsInGroup(df, simplified) ==
    SelectSeq([i \in 1..Len(df) |-> df[i].fund_name],
              LAMBDA fund : simplify_fund_name(fund) = simplified)

\* lines 201-230
RECURSIVE FundCheckboxes(_, _, _)
FundCheckboxes(R, df, simplified_funds) ==
    IF simplified_funds = <<>> \/ R.exception # "" THEN R
    ELSE LET simplified_fund == Head(simplified_funds)
             funds_in_group == FundsInGroup(df, simplified_fund)
             key == FundKey(simplified_fund)
             group_selected ==
                 \E fund \in SeqToSet(funds_in_group) : fund \in SeqToSet(R.selected_funds)
             fund_selected == CheckboxValue(R.widgets, key, group_selected)
         IN IF key \in R.rendered
            THEN [R EXCEPT !.exception = "DuplicateWidgetID"]
            ELSE FundCheckboxes(
                    [R EXCEPT !.widgets = CheckboxState(@, key, group_selected),
                              !.rendered = @ \cup {key},
                              !.selected_funds =
                                  IF fund_selected
                                  THEN @ \o SelectSeq(funds_in_group,
                                           LAMBDA fund : fund \notin SeqToSet(R.selected_funds))
                                  ELSE SelectSeq(@,
                                           LAMBDA fund : fund \notin SeqToSet(funds_in_group))],
                    df, Tail(simplified_funds))

Pans(df) == {df[i].pan : i \in 1..Len(df)}
Funds(df) == {df[i].fund_name : i \in 1..Len(df)}

\* lines 149-157: the selections set to all values only when they are empty
InitializeFilters(R, df) ==
    [R EXCEPT !.combined_df = IF @.none THEN Df(df) ELSE @,
              !.selected_pans = IF @ = <<>> THEN SortedStrs(Pans(df)) ELSE @,
              !.selected_funds = IF @ = <<>> THEN SortedStrs(Funds(df)) ELSE @]

\* the run after create_investment_filters(df)
create_investment_filters(R, df) ==
    LET entered == [R EXCEPT !.log = Append(@, Did("create_investment_filters"))]
        pans_done == PanCheckboxes(InitializeFilters(entered, df), SortedStrs(Pans(df)))
    IN FundCheckboxes(pans_done, df,
                      SortedStrs({simplify_fund_name(f) : f \in Funds(df)}))

\* lines 233-236: what create_investment_filters returns
filtered_df(R, df) ==
    SelectSeq(df, LAMBDA r : /\ r.pan \in SeqToSet(R.selected_pans)
                             /\ r.fund_name \in SeqToSet(R.selected_funds))

----------------------------------------------------------------------------
(* display_investment_summary, camspdf_gui.py 241-320 *)

RECURSIVE ColumnSum(_, _)
ColumnSum(df, col) == IF df = <<>> THEN 0 ELSE Head(df)[col] + ColumnSum(Tail(df), col)

\* lines 246-251
Totals(investment_summary) ==
    LET total_invested == ColumnSum(investment_summary, "amount_invested")
        total_unrealized_gain == ColumnSum(investment_summary, "unrealized_gain")
    IN [total_invested |-> total_invested,
        total_current_value |-> ColumnSum(investment_summary, "current_value"),
        total_unrealized_gain |-> total_unrealized_gain,
        total_return_percentage |->
            IF total_invested # 0 THEN Ratio(total_unrealized_gain * 100, total_invested)
            ELSE Ratio(0, 1)]

\* The metrics and the table are shown, then the download buttons are
\* created: a second pair in one run has the identity of the first.
display_investment_summary(R, investment_summary) ==
    LET shown == [R EXCEPT !.log = Append(@, [call |-> "display_investment_summary",
                                               table |-> investment_summary,
                                               totals |-> Totals(investment_summary)])]
    IN IF DownloadKeys \cap R.rendered # {}
       THEN [shown EXCEPT !.exception = "DuplicateWidgetID"]
       ELSE [shown EXCEPT !.rendered = @ \cup DownloadKeys]

----------------------------------------------------------------------------
(* MutualFundAnalyzer.main, camspdf_gui.py 322-371, one statement per step *)

\* process_pdf_files as main calls it: the loop, then lines 70-73
process_pdf_files(R, files, pws, outs) ==
    LET b == RunLoop("gui", EmptyBatch, 1, files, pws, outs)
        combined_df == Combine(b.all_dataframes)
    IN [run |-> [R EXCEPT !.log = Append(@, [Did("process_pdf_files") EXCEPT
                                                 !.table = combined_df.rows]),
                          !.combined_df = combined_df],
        combined_df |-> combined_df, error_files |-> b.error_files]

\* lines 352-356 and 366-367: the warning of the branch taken
Warned(p) ==
    IF p.combined_df.none
    THEN [p.run EXCEPT !.log = Append(@, Did("warning: No data could be extracted"))]
    ELSE IF p.error_files # <<>>
    THEN [p.run EXCEPT !.log = Append(@, Did("warning: Failed to process files"))]
    ELSE p.run

\* the statement after the one at line
NextLine(line) ==
    CASE line = "358" -> "361"
      [] line = "361" -> "364"
      [] line = "364" -> "368"
      [] line = "369" -> "370"
      [] line = "370" -> "371"
      [] line = "371" -> "end"

\* an exception leaves main
Continue(R) == pc' = IF R.exception # "" THEN "end" ELSE NextLine(pc)

----------------------------------------------------------------------------
(* Spec: one browser session of camspdf_gui.py *)

Statements ==
    { <<RowBuy1000>>, <<RowZeroAmount>>, <<RowIsoDate>> }

SessionOutcomes == {Raises("Incorrect password")} \cup {ReturnsDf(st) : st \in Statements}

\* every file of a session is valid and has its password typed in; the
\* other cases of process_pdf_files are those of SpecBatch
SessionPasswords == {<<"p", "w">>}

SessionFiles == {[name |-> NamePdf, size |-> MAX_FILE_SIZE]}

Init ==
    /\ variant = "gui"
    /\ uploaded_files = <<>> /\ passwords = <<>> /\ adapter = <<>>
    /\ idx = 1 /\ batch = EmptyBatch /\ returned = NotReturned
    /\ val_df = NoneDf /\ val_before = NoneDf /\ val_out = <<>>
    /\ nav_source \in {n \in NavSources : Len(n.alldata) = 2}
    /\ widget_identity \in {"params", "key"}
    /\ InitSession

\* lines 348-356, 366-367: the user presses "Analyze Portfolio" with files in
\* the uploader
\* a click on the checkbox key, with what it found: the selections as sets
\* and whether the run before it had rendered the table to its end
Click(key) ==
    [key |-> key, pans |-> SeqToSet(selected_pans), funds |-> SeqToSet(selected_funds),
     completed |-> exception = ""]

LastTwo(q) == IF Len(q) > 2 THEN Tail(q) ELSE q

AnalyzeWith(outcomes) ==
    /\ pc = "idle"
    /\ uploads < MaxUploads
    /\ \E n \in 1..MaxFiles :
        \E files \in [1..n -> SessionFiles], pws \in [1..n -> SessionPasswords],
           outs \in [1..n -> outcomes] :
            \E p \in {process_pdf_files(StartRun(widgets), files, pws, outs)} :
                /\ Commit(Warned(p))
                /\ main_combined_df' = p.combined_df
                /\ pc' = IF p.combined_df.none THEN "368" ELSE "358"
    /\ uploads' = uploads + 1
    /\ toggled' = <<>>
    /\ UNCHANGED <<variant, batchVars, valVars, nav_source, widget_identity,
                   filtered_summary>>

Analyze == AnalyzeWith(SessionOutcomes)

\* the user clicks a checkbox of the sidebar: the script reruns, the button
\* of line 348 returns False
ToggleWith(recorded) ==
    /\ pc = "idle"
    /\ \E key \in DOMAIN widgets :
        /\ Commit(StartRun([widgets EXCEPT ![key].value = ~@]))
        /\ toggled' = IF recorded THEN LastTwo(Append(toggled, Click(key))) ELSE toggled
    /\ pc' = "368"
    /\ UNCHANGED <<variant, batchVars, valVars, nav_source, widget_identity, uploads,
                   filtered_summary, main_combined_df>>

Toggle == ToggleWith(FALSE)

\* any other interaction reruns the script
Rerun ==
    /\ pc = "idle"
    /\ Commit(StartRun(widgets))
    /\ pc' = "368"
    /\ toggled' = <<>>
    /\ UNCHANGED <<variant, batchVars, valVars, nav_source, widget_identity, uploads,
                   filtered_summary, main_combined_df>>

\* line 368 testing the stored summary in place of the stored table
StoredTableTestOnSummary ==
    /\ pc = "368"
    /\ pc' = IF session_investment_summary.none THEN "end" ELSE "369"
    /\ UNCHANGED <<variant, batchVars, valVars, nav_source, session_combined_df,
                   session_investment_summary, selected_pans, selected_funds, widgets,
                   widget_identity, run_log, uploads, rendered, exception,
                   filtered_summary, main_combined_df, toggled>>

\* line 368
StoredTableTest ==
    /\ pc = "368"
    /\ pc' = IF session_combined_df.none THEN "end" ELSE "369"
    /\ UNCHANGED <<variant, batchVars, valVars, nav_source, session_combined_df,
                   session_investment_summary, selected_pans, selected_funds, widgets,
                   widget_identity, run_log, uploads, rendered, exception,
                   filtered_summary, main_combined_df, toggled>>

\* lines 358 and 369
PrepareInvestmentData ==
    /\ pc \in {"358", "369"}
    /\ \E lnav \in LatestNav(nav_source) :
        \E result \in {prepare_investment_data(
                            IF pc = "358" THEN main_combined_df.rows ELSE session_combined_df.rows,
                            lnav)} :
            /\ run_log' = Append(run_log, Did("prepare_investment_data"))
            /\ exception' = IF result.raised THEN result.error ELSE ""
            /\ session_investment_summary' =
                   IF result.raised THEN session_investment_summary
                   ELSE Df(result.summary)
            /\ pc' = IF result.raised THEN "end" ELSE NextLine(pc)
    /\ UNCHANGED <<variant, batchVars, valVars, nav_source, session_combined_df,
                   selected_pans, selected_funds, widgets, widget_identity, uploads,
                   rendered, filtered_summary, main_combined_df, toggled>>

\* lines 361 and 370
CreateInvestmentFilters ==
    /\ pc \in {"361", "370"}
    /\ \E R \in {create_investment_filters(Run, session_investment_summary.rows)} :
        /\ Commit(R)
        /\ Continue(R)
        /\ filtered_summary' = IF R.exception # "" THEN filtered_summary
                               ELSE filtered_df(R, session_investment_summary.rows)
    /\ UNCHANGED <<variant, batchVars, valVars, nav_source, widget_identity, uploads,
                   main_combined_df, toggled>>

\* lines 364 and 371
DisplayInvestmentSummary ==
    /\ pc \in {"364", "371"}
    /\ \E R \in {display_investment_summary(Run, filtered_summary)} :
        /\ Commit(R)
        /\ Continue(R)
    /\ UNCHANGED <<variant, batchVars, valVars, nav_source, widget_identity, uploads,
                   filtered_summary, main_combined_df, toggled>>

\* The end of a script run: the widgets not rendered in a run that completed
\* are forgotten; a run ended by an exception forgets none.
EndRun ==
    /\ pc = "end"
    /\ pc' = "idle"
    /\ widgets' = IF exception = ""
                  THEN [k \in DOMAIN widgets \cap rendered |-> widgets[k]]
                  ELSE widgets
    /\ run_log' = IF exception = "" THEN run_log ELSE Append(run_log, Did("exception"))
    /\ UNCHANGED <<variant, batchVars, valVars, nav_source, session_combined_df,
                   session_investment_summary, selected_pans, selected_funds,
                   widget_identity, uploads, rendered, exception, filtered_summary, main_combined_df, toggled>>

Next ==
    \/ Analyze
    \/ Toggle
    \/ Rerun
    \/ StoredTableTest
    \/ PrepareInvestmentData
    \/ CreateInvestmentFilters
    \/ DisplayInvestmentSummary
    \/ EndRun

Spec == Init /\ [][Next]_vars

----------------------------------------------------------------------------
(* SpecToggle: a session of camspdf_gui.py whose statements show several   *)
(* owners, funds and fund families, with the checkbox clicks recorded      *)

\* owner CD2 buys the fund owner AB1 holds
RowSameFund ==
    Row(PAN2, Text(FundExG), "Buy", DateOk, <<"5", "0", "0">>, <<"5", "0">>, <<"1", "0">>)

\* one statement of owner AB1 with fund "Ex - G", one of owner CD2 with the
\* funds "Ex - D", "Zed" and "Ex - G"
BucketStatements == { <<RowBuy1000>>, <<RowZeroAmount, RowNonNumeric, RowSameFund>> }

BucketOutcomes ==
    {Raises("Incorrect password")} \cup {ReturnsDf(st) : st \in BucketStatements}

AnalyzeBuckets == AnalyzeWith(BucketOutcomes)

ToggleRecorded == ToggleWith(TRUE)

NextToggle ==
    \/ AnalyzeBuckets
    \/ ToggleRecorded
    \/ Rerun
    \/ StoredTableTest
    \/ PrepareInvestmentData
    \/ CreateInvestmentFilters
    \/ DisplayInvestmentSummary
    \/ EndRun

SpecToggle == Init /\ [][NextToggle]_vars

----------------------------------------------------------------------------
(* Claims about the script runs (Spec) *)

\* the positions of the run's log at which one of calls was made
Entries(calls) == {i \in 1..Len(run_log) : run_log[i].call \in calls}

\* the run in progress, or the last one, processed a batch of which no file
\* produced data
NoDataBatch ==
    \E i \in Entries({"process_pdf_files"}) : run_log[i].table = <<>>

Downstream ==
    {"prepare_investment_data", "create_investment_filters", "display_investment_summary"}

\* C5: a run that processes a batch of which no file produces data reports
\* the 'no data' warning exactly once and performs no valuation, no filter
\* creation and no rendering of the summary, whatever table session state
\* held before the batch.
C5_NoDataWarnsOnceAndStops ==
    NoDataBatch =>
        /\ Cardinality(Entries({"warning: No data could be extracted"})) = 1
        /\ Entries(Downstream) = {}

\* a run over a batch without data has ended, in a session whose filters an
\* earlier batch's table had set
C5_Witness ==
    /\ NoDataBatch
    /\ pc = "idle"
    /\ uploads = 2
    /\ selected_pans # <<>>

\* C10: after every script run that completed over a table, selected_pans
\* holds only owners of the current summary table and selected_funds only
\* funds of it.
C10_SelectionsWithinCurrentTable ==
    (pc = "idle" /\ exception = "" /\ Entries({"display_investment_summary"}) # {}) =>
        /\ SeqToSet(selected_pans) \subseteq Pans(session_investment_summary.rows)
        /\ SeqToSet(selected_funds) \subseteq Funds(session_investment_summary.rows)

\* C11: when create_investment_filters has run on the table of a batch just
\* processed (line 361), selected_pans is the set of all owners of that table
\* and selected_funds the set of all its funds, on the first exposure and on
\* every later batch.
C11_SelectionsDefaultForNewTable ==
    pc = "364" =>
        /\ SeqToSet(selected_pans) = Pans(session_investment_summary.rows)
        /\ SeqToSet(selected_funds) = Funds(session_investment_summary.rows)

\* the same for the first batch of a session only
C11_FirstExposure ==
    (pc = "364" /\ uploads = 1) =>
        /\ SeqToSet(selected_pans) = Pans(session_investment_summary.rows)
        /\ SeqToSet(selected_funds) = Funds(session_investment_summary.rows)

\* C15: in no single run of main is prepare_investment_data,
\* create_investment_filters or display_investment_summary called more than
\* once.
C15_OnePassPerRun ==
    \A call \in {"prepare_investment_data", "create_investment_filters",
                 "display_investment_summary"} :
        Cardinality(Entries({call})) <= 1

----------------------------------------------------------------------------
(* Claims about checkbox clicks (SpecToggle) *)

\* a run has ended without exception
RunCompleted == pc = "idle" /\ exception = ""

\* the last n clicks were made and rendered one after the other, each on a
\* table rendered to its end
Rendered(n) ==
    /\ RunCompleted
    /\ Len(toggled) >= n
    /\ \A i \in 1..Len(toggled) : toggled[i].completed

LastClick == toggled[Len(toggled)]

\* C12: two clicks in immediate succession on the same owner or fund
\* checkbox, each followed by its render pass, leave selected_pans and
\* selected_funds with the contents, as sets, they had before the first
\* click; and one click on an owner's checkbox changes the membership of that
\* owner only and leaves selected_funds as it was.
C12_ToggleTwiceRestores ==
    /\ (Rendered(2) /\ toggled[1].key = toggled[2].key) =>
          /\ SeqToSet(selected_pans) = toggled[1].pans
          /\ SeqToSet(selected_funds) = toggled[1].funds
    /\ (Rendered(1) /\ LastClick.key.kind = "pan") =>
          /\ SeqToSet(selected_funds) = LastClick.funds
          /\ \A pan \in (SeqToSet(selected_pans) \cup LastClick.pans) \ {LastClick.key.name} :
                pan \in SeqToSet(selected_pans) <=> pan \in LastClick.pans
          /\ LastClick.key.name \in SeqToSet(selected_pans)
                <=> LastClick.key.name \notin LastClick.pans

\* C12's formula where a widget is identified by its key alone
C12_UnderKeyIdentity == widget_identity = "key" => C12_ToggleTwiceRestores

\* the funds of the current table whose name has the text before its first
\* "-" equal to family
Bucket(family) ==
    {fund \in Funds(session_investment_summary.rows) : Strip(SplitFirst(fund, "-")) = family}

\* the checkbox key is shown checked
Checked(key) == key \in DOMAIN widgets /\ widgets[key].value

\* C13: funds are bucketed by the text before the first "-".  After the run
\* of a click on a bucket's checkbox, a checkbox found checked has every fund
\* of its bucket in selected_funds and one found unchecked has none, and the
\* funds of no other bucket changed membership; and after every run that
\* rendered the table a bucket's checkbox is checked iff at least one fund of
\* the bucket is selected.
C13_BucketToggle ==
    /\ (Rendered(1) /\ LastClick.key.kind = "fund") =>
          LET bucket == Bucket(LastClick.key.name)
          IN /\ Checked(LastClick.key) => bucket \subseteq SeqToSet(selected_funds)
             /\ ~Checked(LastClick.key) => bucket \cap SeqToSet(selected_funds) = {}
             /\ \A fund \in (SeqToSet(selected_funds) \cup LastClick.funds) \ bucket :
                   fund \in SeqToSet(selected_funds) <=> fund \in LastClick.funds
    /\ (RunCompleted /\ Entries({"display_investment_summary"}) # {}) =>
          \A fund \in Funds(session_investment_summary.rows) :
              Checked(FundKey(Strip(SplitFirst(fund, "-"))))
                  <=> \E other \in Bucket(Strip(SplitFirst(fund, "-"))) :
                          other \in SeqToSet(selected_funds)

\* C13 where the checkbox is identified by its key alone
C13_UnderKeyIdentity == widget_identity = "key" => C13_BucketToggle

\* create_investment_filters has just returned
FiltersCompleted == pc \in {"364", "371"}

\* no value occurs twice in the list
NoDuplicates(q) == \A i, j \in 1..Len(q) : q[i] = q[j] => i = j

\* C16: when create_investment_filters has returned, an owner of the table
\* is in selected_pans iff its checkbox is checked, a fund of the table is in
\* selected_funds iff the checkbox of its bucket is checked, and neither list
\* holds a value twice.
C16_SelectionsAgreeWithCheckboxes ==
    FiltersCompleted =>
        /\ \A pan \in Pans(session_investment_summary.rows) :
              pan \in SeqToSet(selected_pans) <=> Checked(PanKey(pan))
        /\ \A fund \in Funds(session_investment_summary.rows) :
              fund \in SeqToSet(selected_funds)
                  <=> Checked(FundKey(Strip(SplitFirst(fund, "-"))))
        /\ NoDuplicates(selected_pans)
        /\ NoDuplicates(selected_funds)

====
